---- MODULE Spec2Model ----
(***************************************************************************)
(* Model of the search engine of python_chess_engine (src/eval.py):        *)
(* the material evaluator, the move orderer, the negamax/alpha-beta search *)
(* and the parallel root scheduler choose_best_move.                       *)
(*                                                                         *)
(* The chess rules come from the python-chess library, which is not part   *)
(* of the repository.  A position is abstracted as a node of a finite game *)
(* tree: the sequence of move indices played from the root position.  The  *)
(* tree is an input: `marks` says which moves are captures or promotions,  *)
(* which moves do not exist, and which positions are checkmate/stalemate   *)
(* or drawn; every other move is a quiet move.  A board is a base position *)
(* (what a FEN string restores), the stack of moves pushed on it, and the  *)
(* pieces standing on it, which push updates and pop restores.             *)
(*                                                                         *)
(* Spec is the whole engine on the root positions of RootFeatures;         *)
(* SpecSearch is the search alone on the larger family SearchFeatures.     *)
(***************************************************************************)
EXTENDS Integers, Sequences, FiniteSets, TLC

VARIABLES marks, turn0, board, pc, nm, max_depth, board_fen, args, status,
          results, done_order, ran, best_move, max_eval

vars == <<marks, turn0, board, pc, nm, max_depth, board_fen, args, status,
          results, done_order, ran, best_move, max_eval>>

(* ------------------------------ bounds -------------------------------- *)
MaxBranch == 2      \* at most this many legal moves in a position
MaxPly == 3         \* every game is over after this many plies from the root
MaxMarks == 1       \* at most this many non-quiet features in the game tree
MaxDepth == 3       \* largest search depth passed by a caller

Depths == (0 - 1) .. MaxDepth

(* ---------------------------- eval.py:6-15 ---------------------------- *)
INFINITY == 100000

PAWN == "PAWN"
KNIGHT == "KNIGHT"
BISHOP == "BISHOP"
ROOK == "ROOK"
QUEEN == "QUEEN"
KING == "KING"
WHITE == "WHITE"
BLACK == "BLACK"

material_weights ==
    (PAWN :> 100) @@ (KNIGHT :> 320) @@ (BISHOP :> 330) @@ (ROOK :> 500) @@ (QUEEN :> 900)

PieceTypes == <<PAWN, KNIGHT, BISHOP, ROOK, QUEEN, KING>>

(* ------------------- the position adapter (python-chess) -------------- *)
Other(c) == IF c = WHITE THEN BLACK ELSE WHITE

\* what a mark can say of the move leading to a position: it captures a pawn
\* or a queen, it promotes a pawn to a queen, or no such move exists; and of
\* a position: it is checkmate or stalemate ("mate", no legal move), or drawn
\* by material or by the move counters ("draw", the game is over although
\* legal moves exist)
CaptureKinds == {PAWN, QUEEN}
MoveKinds == CaptureKinds \cup {"promotion", "absent"}
NodeKinds == {"mate", "draw"}

\* the positions that carry the features of the searched trees: those of the
\* first two moves of the first three plies; the moves and plies that larger
\* bounds add around them are quiet
FeaturePaths ==
    LET two == {<<1>>, <<2>>}
    IN  {<<>>} \cup two \cup {u \o v : u \in two, v \in two}
        \cup {u \o v \o w : u \in two, v \in two, w \in two}

SearchFeatures ==
    {<<p, k>> : p \in (FeaturePaths \ {<<>>}), k \in CaptureKinds \cup {"promotion"}}
    \cup {<<p, "absent">> : p \in {q \in FeaturePaths \ {<<>>} : q[Len(q)] = 2}}
    \cup {<<p, "mate">> : p \in {q \in FeaturePaths : Len(q) < 3}}
    \cup {<<p, "draw">> : p \in {q \in FeaturePaths : Len(q) < 2}}

\* the features of the root positions handed to choose_best_move: a free
\* queen, a hanging queen, a defended queen, a queen won on the third ply, a
\* pawn capture, a promotion, a root without legal moves, a root move that
\* ends the game, a reply that ends it, a single root move, a single reply,
\* a drawn position
RootFeatures ==
    { <<<<2>>, QUEEN>>, <<<<1, 1>>, QUEEN>>, <<<<2, 1>>, QUEEN>>,
      <<<<2, 1, 1>>, QUEEN>>, <<<<1>>, PAWN>>, <<<<1, 2, 1>>, "promotion">>,
      <<<<>>, "mate">>, <<<<1>>, "mate">>, <<<<2, 2>>, "mate">>,
      <<<<2>>, "absent">>, <<<<1, 1>>, "absent">>, <<<<2>>, "draw">> }

\* the sets of at most k features
RECURSIVE MarkSets(_, _)
MarkSets(F, k) ==
    IF k = 0 THEN {{}}
    ELSE LET S == MarkSets(F, k - 1)
         IN  S \cup {s \cup {m} : s \in S, m \in F}

\* the pieces of the root position
RootPieces ==
    [c \in {WHITE, BLACK}, t \in {PAWN, KNIGHT, BISHOP, ROOK, QUEEN, KING} |->
        IF c = BLACK /\ t = PAWN THEN 2 ELSE 1]

Parent(p) == SubSeq(p, 1, Len(p) - 1)

\* side to move in position p
turn(p) == IF Len(p) % 2 = 0 THEN turn0 ELSE Other(turn0)

\* the move leading to position p captures a piece of type t
CapturedBy(p) == {t \in CaptureKinds : <<p, t>> \in marks}

\* the pieces after the side to move in position p has played move there:
\* a capture takes a piece of the other side, a promotion turns a pawn of
\* the mover into a queen
AfterMove(pm, p, move) ==
    LET q == Append(p, move)
        mover == turn(p)
        hit == CapturedBy(q)
        taken == IF hit = {} THEN pm
                 ELSE LET t == CHOOSE x \in hit : TRUE
                      IN  [pm EXCEPT ![Other(mover), t] = @ - 1]
    IN  IF <<q, "promotion">> \in marks
        THEN [taken EXCEPT ![mover, PAWN] = @ - 1, ![mover, QUEEN] = @ + 1]
        ELSE taken

\* board.piece_map() of position p: how many pieces of each colour and type
RECURSIVE PiecesAt(_)
PiecesAt(p) ==
    IF p = <<>> THEN RootPieces
    ELSE AfterMove(PiecesAt(Parent(p)), Parent(p), p[Len(p)])

\* list(board.legal_moves) in position p: the indices of the existing moves
RECURSIVE MovesFrom(_, _)
MovesFrom(p, i) ==
    IF i > MaxBranch THEN <<>>
    ELSE IF <<Append(p, i), "absent">> \in marks THEN MovesFrom(p, i + 1)
    ELSE <<i>> \o MovesFrom(p, i + 1)

LegalMovesAt(p) ==
    IF Len(p) >= MaxPly \/ <<p, "mate">> \in marks THEN <<>> ELSE MovesFrom(p, 1)

\* the game trees a chess position can have: a move has one kind, a captured
\* piece was on the board, a promoting side had a pawn
ValidMarks ==
    \A m \in marks :
        m[2] \in MoveKinds =>
            /\ \A n \in marks : (n[1] = m[1] /\ n[2] \in MoveKinds) => n = m
            /\ \A c \in {WHITE, BLACK}, t \in {PAWN, QUEEN} : PiecesAt(m[1])[c, t] >= 0

(* a board: the position restored from a FEN string, the stack of the moves *)
(* pushed since, the pieces on the board and the piece maps that pop restores *)
Board(f) == [base |-> f, stack |-> <<>>, pieces |-> PiecesAt(f), hist |-> <<>>]
fen(b) == b.base \o b.stack
push(b, move) ==
    [base |-> b.base, stack |-> Append(b.stack, move),
     pieces |-> AfterMove(b.pieces, fen(b), move), hist |-> Append(b.hist, b.pieces)]
pop(b) ==
    [base |-> b.base, stack |-> SubSeq(b.stack, 1, Len(b.stack) - 1),
     pieces |-> b.hist[Len(b.hist)], hist |-> SubSeq(b.hist, 1, Len(b.hist) - 1)]
legal_moves(b) == LegalMovesAt(fen(b))
is_game_over(b) == legal_moves(b) = <<>> \/ <<fen(b), "draw">> \in marks
promotion(b, move) == <<Append(fen(b), move), "promotion">> \in marks
is_capture(b, move) == CapturedBy(Append(fen(b), move)) # {}

(* ---------------------------- eval.py:18-27 --------------------------- *)
weight(t) == IF t \in DOMAIN material_weights THEN material_weights[t] ELSE 0

\* the loop of lines 21-26 over the pieces of types PieceTypes[i..]
RECURSIVE material_sum(_, _)
material_sum(pm, i) ==
    IF i > Len(PieceTypes) THEN 0
    ELSE pm[WHITE, PieceTypes[i]] * weight(PieceTypes[i])
         - pm[BLACK, PieceTypes[i]] * weight(PieceTypes[i])
         + material_sum(pm, i + 1)

evaluate_board(b) == material_sum(b.pieces, 1)

(* ---------------------------- eval.py:30-43 --------------------------- *)
move_score(b, move) ==
    IF promotion(b, move) THEN material_weights[QUEEN]
    ELSE IF is_capture(b, move) THEN 1
    ELSE 0

\* moves.sort(key=move_score, reverse=True): a stable sort, so moves of equal
\* score keep the order of legal_moves
order_moves(b) ==
    LET moves == legal_moves(b)
        keep(s) == SelectSeq(moves, LAMBDA m : move_score(b, m) = s)
    IN  keep(material_weights[QUEEN]) \o keep(1) \o keep(0)

(* ---------------------------- eval.py:46-64 --------------------------- *)
\* The result carries the value returned, the board as the call leaves it
\* and the number of nodes the call visited.
RECURSIVE negamax(_, _, _, _, _)
RECURSIVE negamax_loop(_, _, _, _, _, _, _, _, _)

\* negamax_loop with the child's window passed as (-alpha, -beta)
negamax_loop_swapped(b, moves, i, depth, alpha, beta, color, best, nodes) ==
    IF i > Len(moves) THEN [val |-> best, board |-> b, nodes |-> nodes]
    ELSE LET pushed == push(b, moves[i])
             r == negamax(pushed, depth - 1, 0 - alpha, 0 - beta, 0 - color)
             eval == 0 - r.val
             popped == pop(r.board)
             best1 == IF eval > best THEN eval ELSE best
             alpha1 == IF best1 > alpha THEN best1 ELSE alpha
         IN  IF alpha1 >= beta
             THEN [val |-> best1, board |-> popped, nodes |-> nodes + r.nodes]
             ELSE negamax_loop(popped, moves, i + 1, depth, alpha1, beta, color,
                               best1, nodes + r.nodes)

\* negamax_loop with the cutoff taken before board.pop()
negamax_loop_nopop(b, moves, i, depth, alpha, beta, color, best, nodes) ==
    IF i > Len(moves) THEN [val |-> best, board |-> b, nodes |-> nodes]
    ELSE LET pushed == push(b, moves[i])
             r == negamax(pushed, depth - 1, 0 - beta, 0 - alpha, 0 - color)
             eval == 0 - r.val
             popped == pop(r.board)
             best1 == IF eval > best THEN eval ELSE best
             alpha1 == IF best1 > alpha THEN best1 ELSE alpha
         IN  IF alpha1 >= beta
             THEN [val |-> best1, board |-> r.board, nodes |-> nodes + r.nodes]
             ELSE negamax_loop(popped, moves, i + 1, depth, alpha1, beta, color,
                               best1, nodes + r.nodes)

negamax_loop(b, moves, i, depth, alpha, beta, color, best, nodes) ==
    IF i > Len(moves) THEN [val |-> best, board |-> b, nodes |-> nodes]
    ELSE LET pushed == push(b, moves[i])
             r == negamax(pushed, depth - 1, 0 - beta, 0 - alpha, 0 - color)
             eval == 0 - r.val
             popped == pop(r.board)
             best1 == IF eval > best THEN eval ELSE best
             alpha1 == IF best1 > alpha THEN best1 ELSE alpha
         IN  IF alpha1 >= beta
             THEN [val |-> best1, board |-> popped, nodes |-> nodes + r.nodes]
             ELSE negamax_loop(popped, moves, i + 1, depth, alpha1, beta, color,
                               best1, nodes + r.nodes)

\* negamax whose leaf score is not multiplied by color
negamax_unsigned(b, depth, alpha, beta, color) ==
    IF depth = 0 \/ is_game_over(b)
    THEN [val |-> evaluate_board(b), board |-> b, nodes |-> 1]
    ELSE negamax_loop(b, order_moves(b), 1, depth, alpha, beta, color,
                      0 - INFINITY, 1)

\* negamax without the board.is_game_over() test
negamax_no_terminal(b, depth, alpha, beta, color) ==
    IF depth = 0
    THEN [val |-> color * evaluate_board(b), board |-> b, nodes |-> 1]
    ELSE negamax_loop(b, order_moves(b), 1, depth, alpha, beta, color,
                      0 - INFINITY, 1)

negamax(b, depth, alpha, beta, color) ==
    IF depth = 0 \/ is_game_over(b)
    THEN [val |-> color * evaluate_board(b), board |-> b, nodes |-> 1]
    ELSE negamax_loop(b, order_moves(b), 1, depth, alpha, beta, color,
                      0 - INFINITY, 1)

(* ---------------------------- eval.py:67-72 --------------------------- *)
evaluate_move(arg) ==
    LET b0 == push(Board(arg.board_fen), arg.move)
        r == negamax(b0, arg.depth - 1, 0 - INFINITY, INFINITY, 0 - 1)
    IN  [move |-> arg.move, eval |-> 0 - r.val, board |-> r.board, nodes |-> r.nodes]

(* ---------------------------- eval.py:75-93 --------------------------- *)
None == 0

\* make_args without the last ordered move
make_args_short(b, depth) ==
    LET moves == order_moves(b)
    IN  [i \in 1..(Len(moves) - 1) |->
            [move |-> moves[i], board_fen |-> fen(b), depth |-> depth]]

make_args(b, depth) ==
    LET moves == order_moves(b)
    IN  [i \in 1..Len(moves) |->
            [move |-> moves[i], board_fen |-> fen(b), depth |-> depth]]

NoResult == [move |-> None, eval |-> 0, board |-> Board(<<>>), nodes |-> 0]

\* the results in the order in which the workers finished (imap_unordered)
pool_map_unordered == [k \in 1..Len(done_order) |-> results[done_order[k]]]

\* pool.map hands back the results in the order of its arguments, whatever
\* the order in which the workers finished
pool_map == [i \in 1..Len(args) |-> results[i]]

\* pool.map returning once every task has ended, with a result or not
map_returns_partial == \A i \in 1..Len(args) : status[i] \in {"done", "raised"}

\* pool.map returns once every task has produced its result
map_returns == \A i \in 1..Len(args) : status[i] = "done"

\* pool.map re-raises a task's exception once every task has finished
map_raises ==
    /\ \A i \in 1..Len(args) : status[i] \in {"done", "raised"}
    /\ \E i \in 1..Len(args) : status[i] = "raised"

\* the scan falling back on the first move when no result was accepted
RECURSIVE reduce_fallback(_, _, _, _)
reduce_fallback(rs, i, move, best) ==
    IF i > Len(rs)
    THEN [best_move |-> IF move = None THEN 1 ELSE move, max_eval |-> best]
    ELSE IF rs[i].eval > best THEN reduce_fallback(rs, i + 1, rs[i].move, rs[i].eval)
    ELSE reduce_fallback(rs, i + 1, move, best)

\* the scan of lines 86-91 from result i on
RECURSIVE reduce(_, _, _, _)
reduce(rs, i, move, best) ==
    IF i > Len(rs) THEN [best_move |-> move, max_eval |-> best]
    ELSE IF rs[i].eval > best THEN reduce(rs, i + 1, rs[i].move, rs[i].eval)
    ELSE reduce(rs, i + 1, move, best)

(* ------------------------------ the state ----------------------------- *)
Windows == {<<0 - INFINITY, INFINITY>>, <<0 - 100, 100>>}

NoCall == [depth |-> 0, alpha |-> 0, beta |-> 0, color |-> 1, val |-> 0,
           nodes |-> 0, entry |-> Board(<<>>), outcome |-> "none"]

Start(F) ==
    /\ marks \in MarkSets(F, MaxMarks)
    /\ turn0 \in {WHITE, BLACK}
    /\ ValidMarks
    /\ board = Board(<<>>)
    /\ pc = "idle"
    /\ nm = NoCall
    /\ max_depth = 0
    /\ board_fen = <<>>
    /\ args = <<>>
    /\ status = <<>>
    /\ results = <<>>
    /\ done_order = <<>>
    /\ ran = <<>>
    /\ best_move = None
    /\ max_eval = 0 - INFINITY

Init == Start(RootFeatures)

InitSearch == Start(SearchFeatures)

\* a caller runs negamax(board, depth, alpha, beta, color) on its board
NegamaxCall(depth, w, color) ==
    /\ pc = "idle"
    /\ \E r \in {negamax(board, depth, w[1], w[2], color)} :
           /\ nm' = [depth |-> depth, alpha |-> w[1], beta |-> w[2], color |-> color,
                     val |-> r.val, nodes |-> r.nodes, entry |-> board,
                     outcome |-> "returned"]
           /\ board' = r.board
    /\ pc' = "searched"
    /\ UNCHANGED <<marks, turn0, max_depth, board_fen, args, status, results,
                   done_order, ran, best_move, max_eval>>

\* choose_best_move(board, max_depth), lines 77-83: the tasks are handed to the pool
ChooseBestMove(depth) ==
    /\ pc = "idle"
    /\ max_depth' = depth
    /\ board_fen' = fen(board)
    /\ args' = make_args(board, depth)
    /\ status' = [i \in 1..Len(args') |-> "pending"]
    /\ results' = [i \in 1..Len(args') |-> NoResult]
    /\ ran' = [i \in 1..Len(args') |-> 0]
    /\ done_order' = <<>>
    /\ best_move' = None
    /\ max_eval' = 0 - INFINITY
    /\ pc' = "map"
    /\ UNCHANGED <<marks, turn0, board, nm>>

\* a worker of the pool runs evaluate_move on task i
EvaluateMove(i) ==
    /\ pc = "map"
    /\ i \in 1..Len(args)
    /\ status[i] = "pending"
    /\ results' = [results EXCEPT ![i] = evaluate_move(args[i])]
    /\ status' = [status EXCEPT ![i] = "done"]
    /\ ran' = [ran EXCEPT ![i] = @ + 1]
    /\ done_order' = Append(done_order, i)
    /\ UNCHANGED <<marks, turn0, board, pc, nm, max_depth, board_fen, args,
                   best_move, max_eval>>

\* task i ends with an exception in its worker
TaskRaises(i) ==
    /\ pc = "map"
    /\ i \in 1..Len(args)
    /\ status[i] = "pending"
    /\ status' = [status EXCEPT ![i] = "raised"]
    /\ ran' = [ran EXCEPT ![i] = @ + 1]
    /\ done_order' = Append(done_order, i)
    /\ UNCHANGED <<marks, turn0, board, pc, nm, max_depth, board_fen, args,
                   results, best_move, max_eval>>

\* pool.map returns and lines 86-93 reduce its results
MapReturns ==
    /\ pc = "map"
    /\ map_returns
    /\ \E red \in {reduce(pool_map, 1, None, 0 - INFINITY)} :
           /\ best_move' = red.best_move
           /\ max_eval' = red.max_eval
    /\ pc' = "returned"
    /\ UNCHANGED <<marks, turn0, board, nm, max_depth, board_fen, args, status,
                   results, done_order, ran>>

\* pool.map raises: choose_best_move ends with the task's exception
MapRaises ==
    /\ pc = "map"
    /\ map_raises
    /\ pc' = "raised"
    /\ UNCHANGED <<marks, turn0, board, nm, max_depth, board_fen, args, status,
                   results, done_order, ran, best_move, max_eval>>

Next ==
    \/ \E depth \in Depths, w \in Windows, color \in {1, 0 - 1} :
          NegamaxCall(depth, w, color)
    \/ \E depth \in Depths : ChooseBestMove(depth)
    \/ \E i \in 1..MaxBranch : EvaluateMove(i)
    \/ \E i \in 1..MaxBranch : TaskRaises(i)
    \/ MapReturns
    \/ MapRaises

Spec == Init /\ [][Next]_vars

\* the searches alone, over the larger family of trees
NextSearch ==
    \E depth \in Depths, color \in {1, 0 - 1} :
        NegamaxCall(depth, <<0 - INFINITY, INFINITY>>, color)

SpecSearch == InitSearch /\ [][NextSearch]_vars

(* ===================== reference definitions ========================== *)
SetMax(S) == CHOOSE x \in S : \A y \in S : x >= y

\* depth-limited negamax over every ordered move: negamax with lines 61-62
\* (the cutoff) removed
RECURSIVE FullWidthVal(_, _, _)
FullWidthVal(b, depth, color) ==
    IF depth = 0 \/ is_game_over(b) THEN color * evaluate_board(b)
    ELSE LET moves == order_moves(b)
         IN  SetMax({0 - INFINITY} \cup
                    {0 - FullWidthVal(push(b, moves[i]), depth - 1, 0 - color) :
                        i \in 1..Len(moves)})

\* the number of nodes the full-width search visits
RECURSIVE FullWidthNodes(_, _)
RECURSIVE SumNodes(_, _, _, _)
SumNodes(b, moves, i, depth) ==
    IF i > Len(moves) THEN 0
    ELSE FullWidthNodes(push(b, moves[i]), depth - 1) + SumNodes(b, moves, i + 1, depth)

FullWidthNodes(b, depth) ==
    IF depth = 0 \/ is_game_over(b) THEN 1
    ELSE 1 + SumNodes(b, order_moves(b), 1, depth)

FullWindow == nm.alpha = 0 - INFINITY /\ nm.beta = INFINITY

\* the sign under which color * evaluate_board is the score of the side to move
SideColor(b) == IF turn(fen(b)) = WHITE THEN 1 ELSE 0 - 1

\* the depth-limited minimax score of root move m for the side to move at the root
RootScore(m) ==
    0 - FullWidthVal(push(Board(fen(board)), m), max_depth - 1,
                     SideColor(push(Board(fen(board)), m)))

Tasks == 1..Len(args)

(* ============================== claims ================================ *)

\* C1: a negamax call of depth >= 0 on the window (-INFINITY, INFINITY)
\* returns the score of the full-width search of the same position and depth.
C1_PruningSound ==
    (pc = "searched" /\ nm.depth >= 0 /\ FullWindow)
        => nm.val = FullWidthVal(nm.entry, nm.depth, nm.color)

\* a full-window call of depth 3 that cut off (it visited fewer nodes than the
\* full-width search) on a tree whose score is not the quiet one
C1_Witness ==
    /\ pc = "searched" /\ FullWindow /\ nm.depth = 3
    /\ nm.nodes < FullWidthNodes(nm.entry, nm.depth)
    /\ nm.val = FullWidthVal(nm.entry, nm.depth, nm.color)
    /\ nm.val # nm.color * evaluate_board(nm.entry)

\* C2 (as claimed): for depth >= 1 every score evaluate_move returns is the
\* depth-limited minimax score of its move for the side to move at the root,
\* and the move choose_best_move returns has the best such score.
C2_RootPerspective ==
    (pc = "returned" /\ max_depth >= 1 /\ Len(args) >= 1)
        => /\ \A i \in Tasks : results[i].eval = RootScore(args[i].move)
           /\ best_move # None
           /\ \A i \in Tasks : RootScore(best_move) >= RootScore(args[i].move)

\* C2, the half of the claim the code meets: the same with White to move at the root
C2_WhiteToMove ==
    (pc = "returned" /\ max_depth >= 1 /\ Len(args) >= 1 /\ turn0 = WHITE)
        => /\ \A i \in Tasks : results[i].eval = RootScore(args[i].move)
           /\ best_move # None
           /\ \A i \in Tasks : RootScore(best_move) >= RootScore(args[i].move)

\* C3 (as claimed): for every depth >= 0 the full-window score under color
\* is the negation of the full-window score under -color.
C3_Symmetry ==
    (pc = "searched" /\ nm.depth >= 0 /\ FullWindow)
        => nm.val = 0 - negamax(nm.entry, nm.depth, 0 - INFINITY, INFINITY,
                                0 - nm.color).val

\* C3 (amended): the score under color is the negation of the score under
\* -color when the depth is 0 or the position is game over.
C3_SymmetryAtLeaves ==
    (pc = "searched" /\ nm.depth >= 0 /\ FullWindow
        /\ (nm.depth = 0 \/ is_game_over(nm.entry)))
        => nm.val = 0 - negamax(nm.entry, nm.depth, 0 - INFINITY, INFINITY,
                                0 - nm.color).val

\* a depth-0 call under color -1 on a position of unequal material
C3_Witness ==
    /\ pc = "searched" /\ FullWindow /\ nm.depth = 0 /\ nm.color = 0 - 1
    /\ nm.val # 0
    /\ nm.val = 0 - negamax(nm.entry, 0, 0 - INFINITY, INFINITY, 1).val

\* C4: when choose_best_move returns, the tasks were the ordered legal root
\* moves, each once; each task ran once and gave the result of its own move;
\* and the returned move's score is at least every root move's score.
C4_Totality ==
    pc = "returned"
        => /\ Len(args) = Len(legal_moves(board))
           /\ \A m \in 1..MaxBranch :
                 Cardinality({i \in Tasks : args[i].move = m})
                    = Cardinality({j \in 1..Len(legal_moves(board)) :
                                      legal_moves(board)[j] = m})
           /\ \A i \in Tasks :
                 /\ ran[i] = 1
                 /\ results[i].move = args[i].move
                 /\ results[i].eval = evaluate_move(args[i]).eval
                 /\ max_eval >= results[i].eval
           /\ Len(args) >= 1 =>
                 \E i \in Tasks : args[i].move = best_move /\ results[i].eval = max_eval

\* a return over two root moves of different scores, the second being the best
C4_Witness ==
    /\ pc = "returned" /\ Len(args) = 2
    /\ results[1].eval < results[2].eval
    /\ best_move = args[2].move

\* C5 (as claimed): a negamax call of negative depth, and a choose_best_move
\* call of depth <= 0, end with an error and search no node.
C5_InvalidDepthFails ==
    /\ (pc = "searched" /\ nm.depth < 0) => (nm.outcome = "error" /\ nm.nodes = 0)
    /\ (pc \in {"map", "returned"} /\ max_depth <= 0)
          => \A i \in Tasks : status[i] = "pending"
    /\ max_depth <= 0 => pc # "returned"

\* C6: on a root position without legal moves choose_best_move has no task,
\* does not raise, can return at once and returns None.
C6_NoLegalMoves ==
    (pc \in {"map", "returned", "raised"} /\ legal_moves(board) = <<>>)
        => /\ Len(args) = 0
           /\ pc # "raised"
           /\ pc = "map" => map_returns
           /\ pc = "returned" => best_move = None

\* choose_best_move has returned on a root position without legal moves
C6_Witness ==
    pc = "returned" /\ legal_moves(board) = <<>> /\ best_move = None /\ Len(args) = 0

\* C7: choose_best_move returns a move only over the results of all its
\* tasks: once a task has ended with an exception the call does not return
\* a move, it raises (the code runs no task twice).
C7_NoPartialResult ==
    /\ pc = "returned" => \A i \in Tasks : status[i] = "done" /\ ran[i] = 1
    /\ (\E i \in Tasks : status[i] = "raised") => pc \in {"map", "raised"}
    /\ (pc = "map" /\ (\A i \in Tasks : status[i] # "pending")
          /\ (\E j \in Tasks : status[j] = "raised")) => (map_raises /\ ~map_returns)

\* the call has raised after one task gave a result and another one failed
C7_Witness ==
    /\ pc = "raised"
    /\ \E i \in Tasks : status[i] = "done"
    /\ \E i \in Tasks : status[i] = "raised"
    /\ best_move = None

\* the first task, in dispatch order, whose score is the maximum
FirstMax ==
    LET sc == [t \in Tasks |-> evaluate_move(args[t]).eval]
    IN  CHOOSE i \in Tasks :
            /\ \A j \in Tasks : sc[i] >= sc[j]
            /\ \A j \in 1..(i - 1) : sc[j] < sc[i]

\* C8: the returned move is the earliest move, in order_moves order, among
\* the root moves of maximum score, whatever order the workers finished in.
C8_Deterministic ==
    (pc = "returned" /\ Len(args) >= 1)
        => /\ \A i \in Tasks : args[i].move = order_moves(board)[i]
           /\ best_move = order_moves(board)[FirstMax]

\* two root moves tie for the maximum, the second finished first, and the
\* first one is returned
C8_Witness ==
    /\ pc = "returned" /\ Len(args) = 2
    /\ done_order = <<2, 1>>
    /\ results[1].eval = results[2].eval
    /\ best_move = args[1].move

\* C9: a negamax call leaves the board as it found it; choose_best_move
\* leaves the caller's board alone, and each task's private board ends as the
\* FEN snapshot with the task's own root move pushed.
C9_Frame ==
    /\ (pc = "searched" /\ nm.depth >= 0) => board = nm.entry
    /\ pc \in {"map", "returned", "raised"} => board = Board(<<>>)
    /\ pc \in {"map", "returned", "raised"} =>
          \A i \in Tasks : status[i] = "done" =>
              results[i].board = push(Board(board_fen), args[i].move)

\* a call of depth 3 on a narrow window that cut off and restored the board
C9_Witness ==
    /\ pc = "searched" /\ nm.depth = 3 /\ ~FullWindow
    /\ nm.nodes < FullWidthNodes(nm.entry, nm.depth)
    /\ nm.nodes > 3
    /\ board = nm.entry

\* C10: for depth >= 1 every score of negamax and of evaluate_move lies
\* strictly between -INFINITY and INFINITY, and choose_best_move returns a
\* move whenever the root position has a legal move.
C10_SentinelApart ==
    /\ (pc = "searched" /\ nm.depth >= 1)
          => (0 - INFINITY < nm.val /\ nm.val < INFINITY)
    /\ (pc \in {"map", "returned", "raised"} /\ max_depth >= 1) =>
          \A i \in Tasks : status[i] = "done" =>
              (0 - INFINITY < results[i].eval /\ results[i].eval < INFINITY)
    /\ (pc = "returned" /\ max_depth >= 1 /\ legal_moves(board) # <<>>)
          => best_move # None

\* a depth-2 choose_best_move whose first root move leads to a position
\* without legal moves, and which returned a move
C10_Witness ==
    /\ pc = "returned" /\ max_depth = 2 /\ Len(args) >= 1
    /\ legal_moves(push(Board(board_fen), args[1].move)) = <<>>
    /\ best_move # None

====
